---- MODULE Spec2Model ----
(***************************************************************************)
(* Model of the nickname lookup engine (src/nickname_converter.py) and of  *)
(* the request handlers that call it (src/main.py).                        *)
(*                                                                         *)
(* A Python str is a sequence of one-character strings, so that lower(),   *)
(* the substring test and fuzz.ratio are computed and not assumed.  A      *)
(* Python dict is a sequence of key/value pairs in insertion order.        *)
(***************************************************************************)
EXTENDS Integers, Sequences, FiniteSets, TLC

VARIABLES data, op, arg, result

vars == <<data, op, arg, result>>

(***************************************************************************)
(* Bounds of the model.                                                    *)
(***************************************************************************)
\* add_nickname is offered only while a name holds fewer nicknames than this.
MaxNicks == 2

(***************************************************************************)
(* Strings.                                                                *)
(***************************************************************************)
LowerCase ==
  <<"a","b","c","d","e","f","g","h","i","j","k","l","m",
    "n","o","p","q","r","s","t","u","v","w","x","y","z">>

UpperCase ==
  <<"A","B","C","D","E","F","G","H","I","J","K","L","M",
    "N","O","P","Q","R","S","T","U","V","W","X","Y","Z">>

IsUpper(c) == \E i \in 1..26 : UpperCase[i] = c

IsLower(c) == \E i \in 1..26 : LowerCase[i] = c

\* Characters outside ASCII that the model's strings use.
NonAscii == {"ë"}

Chars == {UpperCase[i] : i \in 1..26} \cup {LowerCase[i] : i \in 1..26} \cup NonAscii

\* Position of each letter in the alphabet, 1..26; 0 for any other character.
LetterIndex ==
  [c \in Chars |->
     IF IsUpper(c) THEN CHOOSE i \in 1..26 : UpperCase[i] = c
     ELSE IF IsLower(c) THEN CHOOSE i \in 1..26 : LowerCase[i] = c
     ELSE 0]

\* str.lower(), one character.
lower_char ==
  [c \in Chars |-> IF IsUpper(c) THEN LowerCase[LetterIndex[c]] ELSE c]

\* str.lower().
lower(s) == [i \in 1..Len(s) |-> lower_char[s[i]]] \o <<>>

\* Python's  sub in s  on strings.
InStr(sub, s) ==
  \E k \in 0..(Len(s) - Len(sub)) : SubSeq(s, k + 1, k + Len(sub)) = sub

\* Python's  x in list.
InList(x, list) == \E i \in 1..Len(list) : list[i] = x

\* The strings of the model.
sWilliam == <<"W","i","l","l","i","a","m">>
sRobert == <<"R","o","b","e","r","t">>
sWill == <<"W","i","l","l">>
sWilly == <<"W","i","l","l","y">>
sBill == <<"B","i","l","l">>
sLiam == <<"L","i","a","m">>
sWil == <<"W","i","l">>
sWillem == <<"W","i","l","l","e","m">>
sZoe == <<"Z","o","ë">>
sEnglish == <<"E","n","g","l","i","s","h">>
senglish == <<"e","n","g","l","i","s","h">>
sDutch == <<"D","u","t","c","h">>

\* The keys of a structured record.
kNicknames == <<"n","i","c","k","n","a","m","e","s">>
kCentury == <<"c","e","n","t","u","r","y">>
kRegion == <<"r","e","g","i","o","n">>
kSubregion == <<"s","u","b","r","e","g","i","o","n">>

(***************************************************************************)
(* Python values: None, a list, a dict (key/value pairs in insertion       *)
(* order).                                                                 *)
(***************************************************************************)
None == [shape |-> "none"]

List(items) == [shape |-> "list", items |-> items]

Dict(fields) == [shape |-> "dict", fields |-> fields]

IsDict(v) == v.shape = "dict"

IsList(v) == v.shape = "list"

IsNone(v) == v.shape = "none"

Some(x) == [shape |-> "some", v |-> x]

\* The keys of a dict, in iteration order.
DictKeys(d) == [i \in 1..Len(d.fields) |-> d.fields[i].k]

\* key in d
HasKey(d, key) == \E i \in 1..Len(d.fields) : d.fields[i].k = key

\* d[key], for a key that is present.
Item(d, key) == d.fields[CHOOSE i \in 1..Len(d.fields) : d.fields[i].k = key].v

\* d.get(key)
DictGet(d, key) == IF HasKey(d, key) THEN Item(d, key) ELSE None

\* d[key] = val : an existing key keeps its position, a new key is appended.
DictSet(d, key, val) ==
  IF HasKey(d, key)
  THEN Dict([i \in 1..Len(d.fields) |->
               IF d.fields[i].k = key THEN [k |-> key, v |-> val] ELSE d.fields[i]])
  ELSE Dict(Append(d.fields, [k |-> key, v |-> val]))

\* What  for n in value  yields: the elements of a list, the keys of a dict.
Iterate(v) == IF IsDict(v) THEN DictKeys(v) ELSE v.items

(***************************************************************************)
(* get_entry                                                               *)
(***************************************************************************)
\* get_entry with the legacy branch lost: a list is taken for an absent key.
get_entry_legacy_lost(formal_name, d) ==
  LET entry == DictGet(d, formal_name) IN
  IF IsDict(entry) THEN entry
  ELSE Dict(<<[k |-> kNicknames, v |-> List(<<>>)],
              [k |-> kCentury, v |-> List(<<>>)],
              [k |-> kRegion, v |-> List(<<>>)]>>)

get_entry(formal_name, d) ==
  LET entry == DictGet(d, formal_name) IN
  IF IsDict(entry) THEN entry
  ELSE IF IsList(entry)
  THEN Dict(<<[k |-> kNicknames, v |-> entry],
              [k |-> kCentury, v |-> List(<<>>)],
              [k |-> kRegion, v |-> List(<<>>)]>>)
  ELSE Dict(<<[k |-> kNicknames, v |-> List(<<>>)],
              [k |-> kCentury, v |-> List(<<>>)],
              [k |-> kRegion, v |-> List(<<>>)]>>)

(***************************************************************************)
(* add_nickname: returns [err, data].                                      *)
(***************************************************************************)
Ok(x) == [err |-> "none", value |-> x]

Raise(e) == [err |-> e, value |-> None]

NewRecord(nicks) ==
  Dict(<<[k |-> kNicknames, v |-> List(nicks)],
         [k |-> kCentury, v |-> List(<<20>>)],
         [k |-> kRegion, v |-> List(<<sEnglish>>)]>>)

add_nickname(formal_name, nickname, d) ==
  LET entry == DictGet(d, formal_name) IN
  IF IsDict(entry)
  THEN IF ~HasKey(entry, kNicknames) THEN Raise("KeyError")
       ELSE LET nicks == Item(entry, kNicknames).items IN
            IF ~InList(nickname, nicks)
            THEN Ok(DictSet(d, formal_name,
                            DictSet(entry, kNicknames, List(Append(nicks, nickname)))))
            ELSE Ok(d)
  ELSE IF IsList(entry)
  THEN LET nicks == IF ~InList(nickname, entry.items)
                    THEN Append(entry.items, nickname) ELSE entry.items
       IN Ok(DictSet(d, formal_name, NewRecord(nicks)))
  ELSE Ok(DictSet(d, formal_name, NewRecord(<<nickname>>)))

(***************************************************************************)
(* search_by_nickname                                                      *)
(***************************************************************************)
AnyEqualLower(nicknames, nickname_lower) ==
  \E i \in 1..Len(nicknames) : lower(nicknames[i]) = nickname_lower

RECURSIVE SearchFrom(_, _, _)
SearchFrom(nickname_lower, d, i) ==
  IF i > Len(d.fields) THEN <<>>
  ELSE (IF AnyEqualLower(Iterate(d.fields[i].v), nickname_lower)
        THEN <<d.fields[i].k>> ELSE <<>>)
       \o SearchFrom(nickname_lower, d, i + 1)

search_by_nickname(nickname, d) == SearchFrom(lower(nickname), d, 1)

(***************************************************************************)
(* fuzz.ratio (thefuzz): the normalised Indel similarity                   *)
(* 100 * 2 * LCS(a, b) / (len(a) + len(b)), rounded by Python's round()    *)
(* (half to even) and converted to int.                                    *)
(***************************************************************************)
Max2(x, y) == IF x >= y THEN x ELSE y

MaxOf(S) == CHOOSE x \in S : \A y \in S : y <= x

\* One row of the longest-common-subsequence table from the row before it:
\* row[j + 1] is the LCS length of the prefix read so far and b[1..j].  The
\* last character ai is either left out (prev[j + 1]) or paired with an equal
\* b[k], k <= j (prev[k] + 1).
LcsRow(prev, ai, b) ==
  [j \in 1..(Len(b) + 1) |->
     MaxOf({prev[j]} \cup {prev[k] + 1 : k \in {m \in 1..(j - 1) : b[m] = ai}})]

RECURSIVE LcsFrom(_, _, _, _)
LcsFrom(a, b, i, prev) ==
  \* The table is finished at the last row, or as soon as all of b is matched.
  IF prev[Len(b) + 1] = Len(b) \/ i > Len(a) THEN prev[Len(b) + 1]
  ELSE LcsFrom(a, b, i + 1, LcsRow(prev, a[i], b) \o <<>>)

Lcs(a, b) == LcsFrom(a, b, 1, [j \in 1..(Len(b) + 1) |-> 0])

\* int(round(num / den)) for num >= 0, den > 0: ties go to the even integer.
RoundHalfEven(num, den) ==
  LET q == num \div den
      r == num % den
  IN IF 2 * r < den THEN q
     ELSE IF 2 * r > den THEN q + 1
     ELSE IF q % 2 = 0 THEN q ELSE q + 1

fuzz_ratio(a, b) ==
  IF Len(a) + Len(b) = 0 THEN 100
  ELSE RoundHalfEven(200 * Lcs(a, b), Len(a) + Len(b))

(***************************************************************************)
(* sorted(results, key=lambda x: -x[1]): a stable sort, highest score      *)
(* first.                                                                  *)
(***************************************************************************)
\* The sort with the key's minus sign lost: lowest score first.
SortedPositionAscending(results, i) ==
  Cardinality({j \in 1..Len(results) : results[j].score < results[i].score})
  + Cardinality({j \in 1..i : results[j].score = results[i].score})

\* Where results[i] goes: after every higher score, and after the equal scores
\* that come before it in results.
SortedPosition(results, i) ==
  Cardinality({j \in 1..Len(results) : results[j].score > results[i].score})
  + Cardinality({j \in 1..i : results[j].score = results[i].score})

sorted_by_score(results) ==
  [p \in 1..Len(results) |->
     results[CHOOSE i \in 1..Len(results) : SortedPosition(results, i) = p]] \o <<>>

(***************************************************************************)
(* search_by_nickname_strength                                             *)
(***************************************************************************)
ExactScore == 100

PartialScore == 70

FuzzyThreshold == 70

SoundexScore == 65

\* What the inner loop appends for nickname n, or nothing.
StrengthOfNickname(formal_name, n, nickname_lower, partial_match) ==
  IF n = nickname_lower
  THEN <<[name |-> formal_name, score |-> ExactScore]>>
  ELSE IF partial_match /\ InStr(nickname_lower, n)
  THEN <<[name |-> formal_name, score |-> PartialScore]>>
  ELSE LET score == fuzz_ratio(nickname_lower, n)
       IN IF score >= FuzzyThreshold
          THEN <<[name |-> formal_name, score |-> score]>>
          ELSE <<>>

\* The inner loop over one formal name's nicknames, from position i: it ends
\* (break) at the first nickname equal to the query.
RECURSIVE StrengthScan(_, _, _, _, _)
StrengthScan(formal_name, nicknames, i, nickname_lower, partial_match) ==
  IF i > Len(nicknames) THEN <<>>
  ELSE StrengthOfNickname(formal_name, lower(nicknames[i]), nickname_lower,
                          partial_match)
       \o (IF lower(nicknames[i]) = nickname_lower THEN <<>>
           ELSE StrengthScan(formal_name, nicknames, i + 1,
                             nickname_lower, partial_match))

RECURSIVE StrengthFrom(_, _, _, _)
StrengthFrom(nickname_lower, d, i, partial_match) ==
  IF i > Len(d.fields) THEN <<>>
  ELSE StrengthScan(d.fields[i].k, Iterate(d.fields[i].v), 1,
                    nickname_lower, partial_match)
       \o StrengthFrom(nickname_lower, d, i + 1, partial_match)

search_by_nickname_strength(nickname, d, partial_match) ==
  sorted_by_score(StrengthFrom(lower(nickname), d, 1, partial_match))

(***************************************************************************)
(* suggest_close_names                                                     *)
(***************************************************************************)
RECURSIVE SuggestFrom(_, _, _, _)
SuggestFrom(name_lower, d, i, threshold) ==
  IF i > Len(d.fields) THEN <<>>
  ELSE LET key == d.fields[i].k
           score == fuzz_ratio(name_lower, lower(key))
       IN (IF score >= threshold
           THEN <<[name |-> key, score |-> score]>> ELSE <<>>)
          \o SuggestFrom(name_lower, d, i + 1, threshold)

suggest_close_names(name, d, threshold) ==
  sorted_by_score(SuggestFrom(lower(name), d, 1, threshold))

(***************************************************************************)
(* fuzzy.Soundex(4) and get_soundex_code                                   *)
(***************************************************************************)
SoundexSize == 4

\* The encoder's table "01230120022455012623010202", one digit per letter.
SoundexMap ==
  <<"0","1","2","3","0","1","2","0","0","2","2","4","5",
    "5","0","1","2","6","2","3","0","1","0","2","0","2">>

RECURSIVE SoundexScan(_, _, _)
SoundexScan(s, i, out) ==
  IF i > Len(s) \/ Len(out) = SoundexSize THEN out
  ELSE LET c == s[i] IN
       IF LetterIndex[c] = 0 THEN SoundexScan(s, i + 1, out)
       ELSE IF out = <<>>
       THEN SoundexScan(s, i + 1, <<UpperCase[LetterIndex[c]]>>)
       ELSE LET code == SoundexMap[LetterIndex[c]] IN
            IF code # "0" /\ (Len(out) = 1 \/ out[Len(out)] # code)
            THEN SoundexScan(s, i + 1, Append(out, code))
            ELSE SoundexScan(s, i + 1, out)

soundex(s) ==
  LET out == SoundexScan(s, 1, <<>>)
  IN out \o [i \in 1..(SoundexSize - Len(out)) |-> "0"]

\* The code, or None when the encoder raises: it takes ASCII text only.
get_soundex_code(name) ==
  IF \E i \in 1..Len(name) : name[i] \in NonAscii
  THEN None
  ELSE Some(soundex(name))

\* Python's truth value of a code: None and "" are false.
Truthy(code) == ~IsNone(code) /\ code.v # <<>>

(***************************************************************************)
(* search_by_soundex                                                       *)
(***************************************************************************)
RECURSIVE SoundexFrom(_, _, _)
SoundexFrom(code, d, i) ==
  IF i > Len(d.fields) THEN <<>>
  ELSE LET match_code == get_soundex_code(d.fields[i].k)
       IN (IF Truthy(match_code) /\ match_code.v = code.v
           THEN <<d.fields[i].k>> ELSE <<>>)
          \o SoundexFrom(code, d, i + 1)

search_by_soundex(name, d) ==
  LET code == get_soundex_code(name)
  IN IF ~Truthy(code) THEN <<>> ELSE SoundexFrom(code, d, 1)

(***************************************************************************)
(* best_guess_matches.  seen is a dict from formal name to                 *)
(* [score, sources].                                                       *)
(***************************************************************************)
RECURSIVE SeenExact(_, _, _)
SeenExact(seen, names, i) ==
  IF i > Len(names) THEN seen
  ELSE SeenExact(DictSet(seen, names[i],
                         [score |-> ExactScore, sources |-> <<"Exact">>]),
                 names, i + 1)

\* The second loop with max() lost: the later score overwrites the earlier.
FuzzyUpdateOverwrite(seen, name, score) ==
  IF HasKey(seen, name)
  THEN DictSet(seen, name,
         [score |-> score,
          sources |-> Append(Item(seen, name).sources, "Fuzzy/Partial")])
  ELSE DictSet(seen, name, [score |-> score, sources |-> <<"Fuzzy/Partial">>])

\* One step of the second loop: a name already seen gains the tag and keeps
\* the higher score, a new name is entered.
FuzzyUpdate(seen, name, score) ==
  IF HasKey(seen, name)
  THEN DictSet(seen, name,
         [score |-> Max2(Item(seen, name).score, score),
          sources |-> Append(Item(seen, name).sources, "Fuzzy/Partial")])
  ELSE DictSet(seen, name, [score |-> score, sources |-> <<"Fuzzy/Partial">>])

RECURSIVE SeenFuzzy(_, _, _)
SeenFuzzy(seen, scored, i) ==
  IF i > Len(scored) THEN seen
  ELSE SeenFuzzy(FuzzyUpdate(seen, scored[i].name, scored[i].score), scored, i + 1)

\* The third loop with its else branch lost: a name found by Soundex alone is
\* not entered.
SoundexUpdateSeenOnly(seen, name) ==
  IF HasKey(seen, name)
  THEN DictSet(seen, name,
         [score |-> Max2(Item(seen, name).score, SoundexScore),
          sources |-> Append(Item(seen, name).sources, "Soundex")])
  ELSE seen

\* One step of the third loop.
SoundexUpdate(seen, name) ==
  IF HasKey(seen, name)
  THEN DictSet(seen, name,
         [score |-> Max2(Item(seen, name).score, SoundexScore),
          sources |-> Append(Item(seen, name).sources, "Soundex")])
  ELSE DictSet(seen, name, [score |-> SoundexScore, sources |-> <<"Soundex">>])

RECURSIVE SeenSoundex(_, _, _)
SeenSoundex(seen, names, i) ==
  IF i > Len(names) THEN seen
  ELSE SeenSoundex(SoundexUpdate(seen, names[i]), names, i + 1)

\* The three passes of best_guess_matches, before the final listing.
BestGuessSeen(nickname, d) ==
  LET seen1 == SeenExact(Dict(<<>>), search_by_nickname(nickname, d), 1)
      seen2 == SeenFuzzy(seen1, search_by_nickname_strength(nickname, d, TRUE), 1)
  IN SeenSoundex(seen2, search_by_soundex(nickname, d), 1)

SeenItems(seen) ==
  [i \in 1..Len(seen.fields) |->
     [name |-> seen.fields[i].k,
      score |-> seen.fields[i].v.score,
      sources |-> seen.fields[i].v.sources]]

best_guess_matches(nickname, d) ==
  sorted_by_score(SeenItems(BestGuessSeen(nickname, d)))

(***************************************************************************)
(* filter_nicknames_by_metadata(data, century=None, region=None): returns  *)
(* the filtered dict, or raises KeyError at entry["century"] or            *)
(* entry["region"].  A constraint is None or Some(value).                  *)
(***************************************************************************)
\* Python's truth value of an optional int: None and 0 are false.
TruthyInt(x) == ~IsNone(x) /\ x.v # 0

\* Python's truth value of an optional str: None and "" are false.
TruthyStr(x) == ~IsNone(x) /\ x.v # <<>>

LowerAll(list) == [i \in 1..Len(list) |-> lower(list[i])]

RECURSIVE FilterFrom(_, _, _, _, _)
FilterFrom(d, i, century, region, filtered) ==
  IF i > Len(d.fields) THEN Ok(filtered)
  ELSE LET formal_name == d.fields[i].k
           entry == get_entry(formal_name, d)
       IN IF TruthyInt(century) /\ ~HasKey(entry, kCentury) THEN Raise("KeyError")
          ELSE IF TruthyInt(century) /\ ~InList(century.v, Item(entry, kCentury).items)
          THEN FilterFrom(d, i + 1, century, region, filtered)
          ELSE IF TruthyStr(region) /\ ~HasKey(entry, kRegion) THEN Raise("KeyError")
          ELSE IF TruthyStr(region)
                  /\ ~InList(lower(region.v), LowerAll(Item(entry, kRegion).items))
          THEN FilterFrom(d, i + 1, century, region, filtered)
          ELSE FilterFrom(d, i + 1, century, region,
                          DictSet(filtered, formal_name, entry))

filter_nicknames_by_metadata(d, century, region) ==
  FilterFrom(d, 1, century, region, Dict(<<>>))

(***************************************************************************)
(* main.py: the /filter handler.  It passes four positional arguments to   *)
(* filter_nicknames_by_metadata, which takes at most three, so the call    *)
(* raises TypeError before any filtering.                                  *)
(***************************************************************************)
filter_by_metadata(d, century, region, subregion) == Raise("TypeError")

(***************************************************************************)
(* main.py: the /search handler.                                           *)
(***************************************************************************)
\* entry.get(key, [])
EntryGet(entry, key) == IF HasKey(entry, key) THEN Item(entry, key) ELSE List(<<>>)

ResponseItem(name, score, sources, duplicate, d) ==
  LET entry == get_entry(name, d)
  IN [name |-> name,
      nicknames |-> EntryGet(entry, kNicknames),
      century |-> EntryGet(entry, kCentury),
      region |-> EntryGet(entry, kRegion),
      subregion |-> EntryGet(entry, kSubregion),
      score |-> score,
      sources |-> sources,
      duplicate |-> duplicate]

smart_search(q, d) ==
  LET matches == best_guess_matches(q, d) IN
  IF matches = <<>>
  THEN LET soundex_fallback == search_by_soundex(q, d) IN
       IF soundex_fallback # <<>>
       THEN [branch |-> "soundex_fallback",
             body |-> [i \in 1..Len(soundex_fallback) |->
                         ResponseItem(soundex_fallback[i], SoundexScore,
                                      <<"Soundex">>, FALSE, d)]]
       ELSE [branch |-> "suggestions",
             body |-> suggest_close_names(q, d, FuzzyThreshold)]
  ELSE [branch |-> "matches",
        body |-> sorted_by_score(
                   [i \in 1..Len(matches) |->
                      ResponseItem(matches[i].name, matches[i].score,
                                   matches[i].sources,
                                   Len(matches[i].sources) > 1, d)])]

(***************************************************************************)
(* Inputs of the model.                                                    *)
(***************************************************************************)
FormalNames == {sWilliam, sRobert}

NickPool == {sWill, sWilly}

Queries == {sBill, sWil, sWill, sWillem, sZoe, kRegion}

EntryNames == FormalNames \cup {sZoe}

CenturyArgs == {None, Some(0), Some(20)}

RegionArgs == {None, Some(senglish), Some(sDutch)}

SubregionArgs == {None, Some(sDutch)}

\* The dictionary of the documented example.
ExampleData ==
  Dict(<<[k |-> sWilliam,
          v |-> Dict(<<[k |-> kNicknames, v |-> List(<<sWill, sBill, sLiam>>)],
                       [k |-> kCentury, v |-> List(<<20>>)],
                       [k |-> kRegion, v |-> List(<<sEnglish>>)]>>)]>>)

\* Legacy entries: a bare list of nicknames.
LegacyData ==
  Dict(<<[k |-> sWilliam, v |-> List(<<sWilly, sWill>>)],
         [k |-> sRobert, v |-> List(<<sBill>>)]>>)

\* A structured entry without century and region, beside a full one with a
\* subregion.
PartialData ==
  Dict(<<[k |-> sRobert,
          v |-> Dict(<<[k |-> kNicknames, v |-> List(<<sBill>>)]>>)],
         [k |-> sWilliam,
          v |-> Dict(<<[k |-> kNicknames, v |-> List(<<sWilly>>)],
                       [k |-> kCentury, v |-> List(<<19, 20>>)],
                       [k |-> kRegion, v |-> List(<<sDutch>>)],
                       [k |-> kSubregion, v |-> List(<<sDutch>>)]>>)]>>)

\* What json.load may hand the process at start.
LoadedData == {Dict(<<>>), ExampleData, LegacyData, PartialData}

\* The nicknames stored for a formal name: the list, or the "nicknames" field.
StoredNicknames(v) ==
  IF IsList(v) THEN v.items
  ELSE IF IsDict(v) /\ HasKey(v, kNicknames) THEN Item(v, kNicknames).items
  ELSE <<>>

(***************************************************************************)
(* The state machine: one action per function or handler called.           *)
(***************************************************************************)
Init ==
  /\ data \in LoadedData
  /\ op = "load"
  /\ arg = <<>>
  /\ result = None

AddNickname ==
  \E f \in FormalNames, n \in NickPool :
    /\ Len(StoredNicknames(DictGet(data, f))) < MaxNicks
    /\ LET r == add_nickname(f, n, data)
       IN /\ data' = IF r.err = "none" THEN r.value ELSE data
          /\ result' = r
    /\ op' = "add_nickname"
    /\ arg' = <<f, n>>

SearchByNickname ==
  \E q \in Queries :
    /\ op' = "search_by_nickname"
    /\ arg' = <<q>>
    /\ result' = search_by_nickname(q, data)
    /\ UNCHANGED data

SearchByNicknameStrength ==
  \E q \in Queries, partial_match \in BOOLEAN :
    /\ op' = "search_by_nickname_strength"
    /\ arg' = <<q, partial_match>>
    /\ result' = search_by_nickname_strength(q, data, partial_match)
    /\ UNCHANGED data

SearchBySoundex ==
  \E q \in Queries :
    /\ op' = "search_by_soundex"
    /\ arg' = <<q>>
    /\ result' = search_by_soundex(q, data)
    /\ UNCHANGED data

BestGuessMatches ==
  \E q \in Queries :
    /\ op' = "best_guess_matches"
    /\ arg' = <<q>>
    /\ result' = best_guess_matches(q, data)
    /\ UNCHANGED data

GetEntry ==
  \E f \in EntryNames :
    /\ op' = "get_entry"
    /\ arg' = <<f>>
    /\ result' = get_entry(f, data)
    /\ UNCHANGED data

FilterNicknames ==
  \E century \in CenturyArgs, region \in RegionArgs :
    /\ op' = "filter_nicknames_by_metadata"
    /\ arg' = <<century, region>>
    /\ result' = filter_nicknames_by_metadata(data, century, region)
    /\ UNCHANGED data

FilterByMetadata ==
  \E century \in {None, Some(20)}, region \in {None}, subregion \in SubregionArgs :
    /\ op' = "filter_by_metadata"
    /\ arg' = <<century, region, subregion>>
    /\ result' = filter_by_metadata(data, century, region, subregion)
    /\ UNCHANGED data

SmartSearch ==
  \E q \in Queries :
    /\ op' = "smart_search"
    /\ arg' = <<q>>
    /\ result' = smart_search(q, data)
    /\ UNCHANGED data

Next ==
  \/ AddNickname
  \/ SearchByNickname
  \/ SearchByNicknameStrength
  \/ SearchBySoundex
  \/ BestGuessMatches
  \/ GetEntry
  \/ FilterNicknames
  \/ FilterByMetadata
  \/ SmartSearch

Spec == Init /\ [][Next]_vars

(***************************************************************************)
(* Vocabulary of the properties.                                           *)
(***************************************************************************)
\* The formal names of a list of results.
NamesOf(results) == {results[i].name : i \in 1..Len(results)}

\* The scores the three matchers contribute for a formal name.
Contributions(name, q, d) ==
  (IF InList(name, search_by_nickname(q, d)) THEN {ExactScore} ELSE {})
  \cup {e.score : e \in {x \in {search_by_nickname_strength(q, d, TRUE)[i] :
                                  i \in 1..Len(search_by_nickname_strength(q, d, TRUE))} :
                           x.name = name}}
  \cup (IF InList(name, search_by_soundex(q, d)) THEN {SoundexScore} ELSE {})

\* The tags of the matchers that found a formal name.
FoundBy(name, q, d) ==
  (IF InList(name, search_by_nickname(q, d)) THEN {"Exact"} ELSE {})
  \cup (IF name \in NamesOf(search_by_nickname_strength(q, d, TRUE))
        THEN {"Fuzzy/Partial"} ELSE {})
  \cup (IF InList(name, search_by_soundex(q, d)) THEN {"Soundex"} ELSE {})

TagRank(tag) == CASE tag = "Exact" -> 1 [] tag = "Fuzzy/Partial" -> 2 [] OTHER -> 3

\* A list of tags without repetition, Exact before Fuzzy/Partial before Soundex.
OrderedTagSet(sources) ==
  \A i, j \in 1..Len(sources) : i < j => TagRank(sources[i]) < TagRank(sources[j])

\* A field of the normalised record: the stored list, or empty when missing.
NormField(v, key) ==
  IF IsDict(v) /\ HasKey(v, key) THEN Item(v, key).items
  ELSE IF IsList(v) /\ key = kNicknames THEN v.items
  ELSE <<>>

\* The stored value meets every supplied constraint, by membership.
Satisfies(v, century, region, subregion) ==
  /\ ~IsNone(century) => InList(century.v, NormField(v, kCentury))
  /\ ~IsNone(region) => InList(lower(region.v), LowerAll(NormField(v, kRegion)))
  /\ ~IsNone(subregion)
       => InList(lower(subregion.v), LowerAll(NormField(v, kSubregion)))

\* The filter returned, without raising, exactly the names that satisfy the
\* constraints.
FilterExact(century, region, subregion) ==
  /\ result.err = "none"
  /\ {result.value.fields[i].k : i \in 1..Len(result.value.fields)}
       = {data.fields[i].k : i \in
            {j \in 1..Len(data.fields) :
               Satisfies(data.fields[j].v, century, region, subregion)}}

(***************************************************************************)
(* C1: search_by_nickname, asked for a nickname stored for a formal name    *)
(* (in any letter case), includes that formal name.                        *)
(***************************************************************************)
C1_ExactMatchComplete ==
  op = "search_by_nickname" =>
    \A i \in 1..Len(data.fields) :
      \A j \in 1..Len(StoredNicknames(data.fields[i].v)) :
        lower(StoredNicknames(data.fields[i].v)[j]) = lower(arg[1])
          => InList(data.fields[i].k, result)

(***************************************************************************)
(* C2: best_guess_matches lists a formal name at most once, and with the   *)
(* highest of the scores the matchers contribute for it (100 exact, every  *)
(* score of search_by_nickname_strength in partial mode, 65 Soundex).      *)
(***************************************************************************)
C2_OneEntryMaxScore ==
  op = "best_guess_matches" =>
    /\ \A i, j \in 1..Len(result) : result[i].name = result[j].name => i = j
    /\ \A i \in 1..Len(result) :
         /\ Contributions(result[i].name, arg[1], data) # {}
         /\ result[i].score = MaxOf(Contributions(result[i].name, arg[1], data))

\* A name for which the matchers contribute different scores.
C2_Witness ==
  /\ op = "best_guess_matches"
  /\ \E i \in 1..Len(result) :
       Cardinality(Contributions(result[i].name, arg[1], data)) >= 2

(***************************************************************************)
(* C3: the sources of every entry of best_guess_matches are an ordered set *)
(* (no tag twice, Exact before Fuzzy/Partial before Soundex), so that more *)
(* than one source means that at least two matchers found the name.        *)
(***************************************************************************)
C3_SourcesOrderedSet ==
  op = "best_guess_matches" =>
    \A i \in 1..Len(result) :
      /\ OrderedTagSet(result[i].sources)
      /\ Len(result[i].sources) > 1
           <=> Cardinality(FoundBy(result[i].name, arg[1], data)) >= 2

(***************************************************************************)
(* C4: the scores of best_guess_matches never increase along the list.     *)
(***************************************************************************)
C4_NonIncreasing ==
  op = "best_guess_matches" =>
    \A i, j \in 1..Len(result) : i < j => result[i].score >= result[j].score

\* A list that holds two different scores.
C4_Witness ==
  /\ op = "best_guess_matches"
  /\ \E i, j \in 1..Len(result) : i < j /\ result[i].score > result[j].score

(***************************************************************************)
(* C5: on the documented dictionary, best_guess_matches("Bill") is exactly *)
(* [("William", 100, ["Exact"])].                                          *)
(***************************************************************************)
C5_ExampleBill ==
  (op = "best_guess_matches" /\ data = ExampleData /\ arg = <<sBill>>) =>
    result = <<[name |-> sWilliam, score |-> ExactScore, sources |-> <<"Exact">>]>>

(***************************************************************************)
(* C6: in partial mode, a query that is a proper case-insensitive          *)
(* substring of a stored nickname makes search_by_nickname_strength report *)
(* the formal name with score 70.                                          *)
(***************************************************************************)
C6_SubstringScores70 ==
  (op = "search_by_nickname_strength" /\ arg[2]) =>
    \A i \in 1..Len(data.fields) :
      \A j \in 1..Len(StoredNicknames(data.fields[i].v)) :
        LET n == lower(StoredNicknames(data.fields[i].v)[j])
        IN (InStr(lower(arg[1]), n) /\ lower(arg[1]) # n) =>
             \E r \in 1..Len(result) :
               result[r].name = data.fields[i].k /\ result[r].score = PartialScore

(***************************************************************************)
(* C7, as claimed: without constraints the filter returns the same keys    *)
(* and, for every key, the stored content of the input.                    *)
(***************************************************************************)
C7_UnfilteredSameContent ==
  (op = "filter_nicknames_by_metadata" /\ arg = <<None, None>>) =>
    /\ result.err = "none"
    /\ DictKeys(result.value) = DictKeys(data)
    /\ \A i \in 1..Len(data.fields) :
         Item(result.value, data.fields[i].k) = data.fields[i].v

(***************************************************************************)
(* C7, amended: without constraints the filter returns the same keys in    *)
(* the same order; a structured record is returned as stored, a legacy     *)
(* list as the record {nicknames: the list, century: [], region: []}.      *)
(***************************************************************************)
C7_UnfilteredNormalised ==
  (op = "filter_nicknames_by_metadata" /\ arg = <<None, None>>) =>
    /\ result.err = "none"
    /\ DictKeys(result.value) = DictKeys(data)
    /\ \A i \in 1..Len(data.fields) :
         LET v == data.fields[i].v
             out == Item(result.value, data.fields[i].k)
         IN /\ IsDict(v) => out = v
            /\ IsList(v) =>
                 out = Dict(<<[k |-> kNicknames, v |-> v],
                              [k |-> kCentury, v |-> List(<<>>)],
                              [k |-> kRegion, v |-> List(<<>>)]>>)

\* An unconstrained filter over a legacy entry and a structured one.
C7_Witness ==
  /\ op = "filter_nicknames_by_metadata"
  /\ arg = <<None, None>>
  /\ \E i, j \in 1..Len(data.fields) :
       IsList(data.fields[i].v) /\ IsDict(data.fields[j].v)

(***************************************************************************)
(* C8: the filter never raises and returns exactly the formal names whose  *)
(* normalised record satisfies every supplied constraint (century, also 0; *)
(* region and subregion case-insensitively).                               *)
(***************************************************************************)
C8_FilterBySuppliedConstraints ==
  /\ op = "filter_nicknames_by_metadata" => FilterExact(arg[1], arg[2], None)
  /\ op = "filter_by_metadata" => FilterExact(arg[1], arg[2], arg[3])

(***************************************************************************)
(* C9: get_entry returns a record that holds nicknames, century and        *)
(* region, all empty for an absent key.                                    *)
(***************************************************************************)
C9_NormalisationTotal ==
  op = "get_entry" =>
    /\ IsDict(result)
    /\ HasKey(result, kNicknames) /\ HasKey(result, kCentury) /\ HasKey(result, kRegion)
    /\ IsNone(DictGet(data, arg[1])) =>
         /\ Item(result, kNicknames) = List(<<>>)
         /\ Item(result, kCentury) = List(<<>>)
         /\ Item(result, kRegion) = List(<<>>)

(***************************************************************************)
(* C10: when best_guess_matches is empty, so is search_by_soundex; the     *)
(* /search handler never answers from its Soundex fallback.                *)
(***************************************************************************)
C10_SoundexFallbackDead ==
  /\ (op = "best_guess_matches" /\ result = <<>>) =>
       search_by_soundex(arg[1], data) = <<>>
  /\ op = "smart_search" => result.branch # "soundex_fallback"

\* The handler reached its suggestions after the Soundex scan compared the
\* query's code with a stored name's.
C10_Witness ==
  /\ op = "smart_search"
  /\ result.branch = "suggestions"
  /\ Truthy(get_soundex_code(arg[1]))
  /\ Len(data.fields) > 0

====
